---- MODULE Spec2Model ----
(***************************************************************************)
(* A model of the satellite-wallpaper pipeline:                            *)
(*   - wallpaper_daemon.py : the Mode Arbiter loop (daemon_loop) and the   *)
(*     Activity Watcher (is_deploy_running);                               *)
(*   - deploy-wallpaper.py : the Source Resolver, the Stager, the          *)
(*     Deployer and the orchestrator's main loop.                          *)
(* Three specifications share the definitions:                             *)
(*   SpecDaemon  the daemon's polling loop against its environment;        *)
(*   SpecStage   repeated calls of stage_from_latest_run on one parent     *)
(*               directory while the frame generator adds run folders;     *)
(*   SpecDeploy  runs of main() over a list of views.                      *)
(***************************************************************************)
EXTENDS Integers, Sequences, FiniteSets, TLC

VARIABLES
    \* ---- wallpaper_daemon.py
    last_state,     \* daemon_loop's local: "None" | "static" | "satellite"
    daemon_pc,      \* "running" | "crashed" (an exception left daemon_loop)
    static_dir,     \* the file names present in STATIC_DIR
    wallpaper,      \* the mode last set through the OS: [mode, img], mode "initial" | "static" | "live"
    tick,           \* what the most recent iteration of the loop saw and did
    prev,           \* the same for the iteration before it
    \* ---- the file system deploy-wallpaper.py works on
    out,            \* OUTPUT_BASE_DIR: name of a child |-> that child (a parent directory of runs)
    stage_call,     \* what the most recent call of stage_from_latest_run did, and
                    \* [fresh] no run was added since, [calls] how many calls were
                    \* made since (counted up to 2), [clean] every call so far succeeded
    proj,           \* the Wallpaper Engine projects: project_path |-> its materials and files
    \* ---- deploy-wallpaper.py, main()
    pc,             \* where main() is: "idle" (not started) | "start" | "load_projects" | "loop"
                    \* | "done" | "aborted" | "crashed"
    views_file,     \* views_config.json: "ok" | "missing" | "invalid"
    projects_file,  \* projects.json: "ok" | "missing" | "invalid"
    views,          \* the list views_config.json holds
    projs_raw,      \* the list projects.json holds
    stage_only_env, \* the value of the environment variable STAGE_ONLY (unset reads as "0")
    projects,       \* main's dict: canonical key |-> project_path
    idx,            \* the position of the for loop in views (1-based)
    outcomes,       \* what was done for each view processed so far
    out0,           \* OUTPUT_BASE_DIR when main() started
    proj0           \* the projects when main() started

daemonVars == <<last_state, daemon_pc, static_dir, wallpaper, tick, prev>>

stageVars == <<out, stage_call>>

mainVars == <<proj, pc, views_file, projects_file, views, projs_raw, stage_only_env,
              projects, idx, outcomes, out0, proj0>>

vars == <<last_state, daemon_pc, static_dir, wallpaper, tick, prev, out, stage_call,
          proj, pc, views_file, projects_file, views, projs_raw, stage_only_env,
          projects, idx, outcomes, out0, proj0>>

(***************************************************************************)
(*                          wallpaper_daemon.py                            *)
(***************************************************************************)

\* The marker strings is_deploy_running looks for in the lower-cased tasklist
\* output.  "DEPLOY_SCRIPT_NAME" stands for DEPLOY_SCRIPT_NAME.lower().
Markers == {"DEPLOY_SCRIPT_NAME", "python", "deploy-wallpaper.py"}

\* What subprocess.check_output(['tasklist']) can do: raise, or return a text
\* (modelled by the set of markers that occur in it).
QueryOutcomes ==
    {[ok |-> FALSE, tasks |-> {}]} \cup {[ok |-> TRUE, tasks |-> t] : t \in SUBSET Markers}

\* The files STATIC_DIR may hold.
StaticFiles == {"s1.jpg", "s2.png", "readme.txt"}

\* STATIC_DIR.glob("*.jpg") + STATIC_DIR.glob("*.png")
StaticChoices(dir) == (dir \cap {"s1.jpg"}) \cup (dir \cap {"s2.png"})

\* pick_random_static: the set of values the call can return.
pick_random_static(dir) ==
    IF StaticChoices(dir) # {} THEN StaticChoices(dir) ELSE {"None"}

\* set_static_wallpaper(img): the desktop shows the still image.
set_static_wallpaper(img) == [mode |-> "static", img |-> img]

\* restore_wallpaper_engine(): the live renderer is started.
restore_wallpaper_engine == [mode |-> "live", img |-> "None"]

\* is_deploy_running without its try/except: the exception of the query leaves the call.
is_deploy_running_nocatch(q) ==
    IF q.ok
    THEN [raised |-> FALSE,
          value  |-> ("DEPLOY_SCRIPT_NAME" \in q.tasks)
                     \/ ("python" \in q.tasks /\ "deploy-wallpaper.py" \in q.tasks)]
    ELSE [raised |-> TRUE, value |-> FALSE]

\* is_deploy_running: [raised] tells whether an exception leaves the call,
\* [value] is the returned boolean.
is_deploy_running(q) ==
    IF q.ok
    THEN [raised |-> FALSE,
          value  |-> ("DEPLOY_SCRIPT_NAME" \in q.tasks)
                     \/ ("python" \in q.tasks /\ "deploy-wallpaper.py" \in q.tasks)]
    ELSE [raised |-> FALSE, value |-> FALSE]

\* The active branch without the test of img: the state is set whatever was picked.
ActiveBranch_nocheck(state, img) ==
    [state |-> "static", issued |-> "static", img |-> img]

\* The active branch forgetting the held state when no image is found.
ActiveBranch_reset(state, img) ==
    IF img # "None"
    THEN [state |-> "static", issued |-> "static", img |-> img]
    ELSE [state |-> "None", issued |-> "none", img |-> "None"]

\* The active branch with `last_state = "static"` moved out of `if img:`.
ActiveBranch_statealways(state, img) ==
    IF img # "None"
    THEN [state |-> "static", issued |-> "static", img |-> img]
    ELSE [state |-> "static", issued |-> "none", img |-> "None"]

\* The branch `if deploy_active and last_state != "static"` of daemon_loop,
\* given the image picked: the new held state and the call issued.
ActiveBranch(state, img) ==
    IF img # "None"
    THEN [state |-> "static", issued |-> "static", img |-> img]
    ELSE [state |-> state, issued |-> "none", img |-> "None"]

\* The branch `elif not deploy_active and last_state != "satellite"`.
InactiveBranch(state) ==
    [state |-> "satellite", issued |-> "live", img |-> "None"]

\* The body of the while loop with the debouncing comparisons dropped.
LoopBody_nodebounce(state, active, img) ==
    IF active THEN ActiveBranch(state, img) ELSE InactiveBranch(state)

\* The body of the while loop of daemon_loop for one observation.
LoopBody(state, active, img) ==
    IF active /\ state # "static" THEN ActiveBranch(state, img)
    ELSE IF ~active /\ state # "satellite" THEN InactiveBranch(state)
    ELSE [state |-> state, issued |-> "none", img |-> "None"]

NoTick == [query |-> "none", active |-> FALSE, before |-> "None",
           pool |-> {}, issued |-> "none", after |-> "None"]

\* The state before the first iteration of daemon_loop.  The file system of
\* the deployment is not looked at by the daemon's specifications.
DaemonInit ==
    /\ out = <<>>
    /\ stage_call = <<>>
    /\ proj = <<>>
    /\ pc = "idle"
    /\ views_file = "ok"
    /\ projects_file = "ok"
    /\ views = <<>>
    /\ projs_raw = <<>>
    /\ stage_only_env = "0"
    /\ projects = <<>>
    /\ idx = 0
    /\ outcomes = <<>>
    /\ out0 = <<>>
    /\ proj0 = <<>>
    /\ last_state = "None"
    /\ daemon_pc = "running"
    /\ static_dir \in SUBSET StaticFiles
    /\ wallpaper = [mode |-> "initial", img |-> "None"]
    /\ tick = NoTick
    /\ prev = NoTick

\* One iteration of `while True` in daemon_loop, the process-list query
\* answering q and random.choice picking img.
Tick(q, img) ==
    /\ daemon_pc = "running"
    /\ img \in pick_random_static(static_dir)
    /\ LET r == is_deploy_running(q) IN
       IF r.raised
       THEN /\ daemon_pc' = "crashed"
            /\ tick' = [query |-> "error", active |-> FALSE, before |-> last_state,
                        pool |-> StaticChoices(static_dir), issued |-> "none",
                        after |-> last_state]
            /\ prev' = tick
            /\ UNCHANGED <<last_state, static_dir, wallpaper>>
            /\ UNCHANGED <<stageVars, mainVars>>
       ELSE LET b == LoopBody(last_state, r.value, img) IN
            /\ last_state' = b.state
            /\ wallpaper' = CASE b.issued = "static" -> set_static_wallpaper(b.img)
                              [] b.issued = "live"   -> restore_wallpaper_engine
                              [] OTHER               -> wallpaper
            /\ tick' = [query |-> IF q.ok THEN "ok" ELSE "error", active |-> r.value,
                        before |-> last_state, pool |-> StaticChoices(static_dir),
                        issued |-> b.issued, after |-> b.state]
            /\ prev' = tick
            /\ UNCHANGED <<daemon_pc, static_dir>>
            /\ UNCHANGED <<stageVars, mainVars>>

\* The user (or another program) adds or removes one file of STATIC_DIR.
StaticDirChange ==
    /\ \E f \in StaticFiles :
          static_dir' = IF f \in static_dir THEN static_dir \ {f} ELSE static_dir \cup {f}
    /\ UNCHANGED <<last_state, daemon_pc, wallpaper, tick, prev>>
    /\ UNCHANGED <<stageVars, mainVars>>

DaemonTick == \E q \in QueryOutcomes, img \in StaticFiles \cup {"None"} : Tick(q, img)

DaemonNext ==
    \/ DaemonTick
    \/ StaticDirChange

SpecDaemon == DaemonInit /\ [][DaemonNext]_vars

\* daemon_loop sleeps CHECK_INTERVAL and polls again, for ever.
SpecDaemonFair == SpecDaemon /\ WF_vars(DaemonTick)

(***************************************************************************)
(*            deploy-wallpaper.py: the file system it works on             *)
(***************************************************************************)

\* ---- bounds of the model
MaxRuns == 2        \* run folders (and stray files) the generator leaves in one parent directory
MaxTime == 2        \* modification times are 1..MaxTime

\* The names a run folder can have.  NameRank is their lexical order: a
\* folder's name says nothing about its age.
RunNames == {"run_a", "run_b", "run_c"}
NameRank(n) == CASE n = "run_a" -> 1 [] n = "run_b" -> 2 [] n = "run_c" -> 3
                 [] n = "staging" -> 4 [] OTHER -> 0

\* The entries a parent directory can hold, in the order iterdir() lists them
\* (an order the operating system chooses; it is not the order of the names).
DirOrder == <<"run_b", "staging", "run_c", "run_a">>
EntryNames == {DirOrder[i] : i \in DOMAIN DirOrder}

\* The file names a run folder can hold, in the order glob() lists them, and
\* their ascending lexical order (LexRank).
GlobOrder == <<"b.png", "notes.txt", "c.png", "manifest.json", "a.png">>
RunFileNames == {GlobOrder[i] : i \in DOMAIN GlobOrder}
LexRank(n) == CASE n = "a.png" -> 1 [] n = "b.png" -> 2 [] n = "c.png" -> 3
                [] n = "manifest.json" -> 4 [] n = "notes.txt" -> 5 [] OTHER -> 0

\* The file sets the frame generator leaves in a run folder.
RunShapes == { {},
               {"notes.txt"},
               {"a.png"},
               {"b.png", "a.png"},
               {"a.png", "manifest.json"},
               {"b.png", "a.png", "c.png", "manifest.json", "notes.txt"} }

NoFiles == <<>>
NoEntry == [kind |-> "none", mtime |-> 0, files |-> NoFiles]
EmptyDir == [n \in EntryNames |-> NoEntry]

\* A run folder `run` holding the files `shape`: every file has bytes of its own.
RunFolder(run, mtime, shape) ==
    [kind |-> "dir", mtime |-> mtime, files |-> [n \in shape |-> <<run, n>>]]
StrayFile(mtime) == [kind |-> "file", mtime |-> mtime, files |-> NoFiles]

\* ---- Python and pathlib helpers

\* Path.iterdir(): the entries of a directory, in listing order.
IterDir(dir) == SelectSeq(DirOrder, LAMBDA n : dir[n].kind # "none")

\* max(seq, key): the first element of seq with the greatest key (seq
\* non-empty); key is given as a function on the elements.
RECURSIVE PyMaxFrom(_, _, _, _)
PyMaxFrom(seq, key, i, best) ==
    IF i > Len(seq) THEN best
    ELSE PyMaxFrom(seq, key, i + 1, IF key[seq[i]] > key[best] THEN seq[i] ELSE best)
PyMax(seq, key) == PyMaxFrom(seq, key, 2, seq[1])

\* folder.glob("*.png"): the files with the extension .png, in listing order.
IsPng(n) == n \in {"a.png", "b.png", "c.png"}
GlobPng(files) == SelectSeq(GlobOrder, LAMBDA n : n \in DOMAIN files /\ IsPng(n))

\* sorted(seq): insertion sort on the lexical order of the names.
RECURSIVE Insert(_, _)
Insert(sorted, x) ==
    IF sorted = <<>> THEN <<x>>
    ELSE IF LexRank(x) < LexRank(Head(sorted)) THEN <<x>> \o sorted
    ELSE <<Head(sorted)>> \o Insert(Tail(sorted), x)
RECURSIVE Sorted(_)
Sorted(seq) == IF seq = <<>> THEN <<>> ELSE Insert(Sorted(Tail(seq)), Head(seq))

\* f"{i:03d}": decimal, zero-padded to at least three digits.
Digit == <<"0", "1", "2", "3", "4", "5", "6", "7", "8", "9">>
RECURSIVE Dec(_)
Dec(i) == IF i < 10 THEN Digit[i + 1] ELSE Dec(i \div 10) \o Digit[(i % 10) + 1]
Pad3(i) == IF i < 10 THEN "00" \o Dec(i) ELSE IF i < 100 THEN "0" \o Dec(i) ELSE Dec(i)

\* f"frame_{i:03d}.png"
FrameName(i) == "frame_" \o Pad3(i) \o ".png"

(***************************************************************************)
(*                 deploy-wallpaper.py: stage_from_latest_run              *)
(***************************************************************************)

\* all_runs keeps every directory, the staging directory included.
AllRuns_withstaging(dir) ==
    SelectSeq(IterDir(dir), LAMBDA n : dir[n].kind = "dir")

\* all_runs = [d for d in parent_dir.iterdir() if d.is_dir() and d.name != 'staging']
AllRuns(dir) ==
    SelectSeq(IterDir(dir), LAMBDA n : dir[n].kind = "dir" /\ n # "staging")

\* The latest run taken by name instead of by modification time.
LatestRun_byname(dir, all_runs) == PyMax(all_runs, [n \in EntryNames |-> NameRank(n)])

\* latest_run_folder = max(all_runs, key=lambda d: d.stat().st_mtime)
LatestRun(dir, all_runs) == PyMax(all_runs, [n \in EntryNames |-> dir[n].mtime])

\* staging_dir.mkdir(exist_ok=True); the call is made at the present time,
\* which is not before any modification time of the model.
MkdirStaging(dir) ==
    IF dir["staging"].kind = "dir" THEN dir
    ELSE [dir EXCEPT !["staging"] = [kind |-> "dir", mtime |-> MaxTime, files |-> NoFiles]]

\* source_files without sorted(): the frames in the order glob() lists them.
SourceFiles_unsorted(files) == GlobPng(files)

\* source_files = sorted(latest_run_folder.glob("*.png"))
SourceFiles(files) == Sorted(GlobPng(files))

\* The frames written into the run folder they are read from.
WriteFrames_intorun(dir, run, source_files) ==
    LET K == Len(source_files)
        written == [f \in {FrameName(i) : i \in 0 .. K - 1} |->
                      dir[run].files[source_files[(CHOOSE i \in 0 .. K - 1 : FrameName(i) = f) + 1]]]
    IN [dir EXCEPT ![run].files = written @@ @]

\* for i, frame_path in enumerate(source_files):
\*     (staging_dir / f"frame_{i:03d}.png").write_bytes(frame_path.read_bytes())
WriteFrames(dir, run, source_files) ==
    LET K == Len(source_files)
        written == [f \in {FrameName(i) : i \in 0 .. K - 1} |->
                      dir[run].files[source_files[(CHOOSE i \in 0 .. K - 1 : FrameName(i) = f) + 1]]]
    IN [dir EXCEPT !["staging"].files = written @@ @]

\* shutil.copy2(src_manifest, staging_dir / "current_manifest.json")
CopyManifestToStaging(dir, run) ==
    [dir EXCEPT !["staging"].files =
        ("current_manifest.json" :> dir[run].files["manifest.json"]) @@ @]

\* What a call of stage_from_latest_run leaves: the directory afterwards,
\* what the call returns ("staging", "None", or "raise" when an exception
\* leaves it), why, the run selected and the number of frames staged.
StageResult(dir, ret, why, run, n) ==
    [dir |-> dir, ret |-> ret, why |-> why, run |-> run, n |-> n]

\* Lines 65-70: the copy of the manifest; copy_fails tells whether
\* shutil.copy2 raises.
StageManifest(dir, latest_run_folder, n, copy_fails) ==
    IF "manifest.json" \notin DOMAIN dir[latest_run_folder].files
    THEN StageResult(dir, "staging", "ok", latest_run_folder, n)
    ELSE IF copy_fails
    THEN StageResult(dir, "raise", "manifest_copy", latest_run_folder, n)
    ELSE StageResult(CopyManifestToStaging(dir, latest_run_folder), "staging", "ok",
                     latest_run_folder, n)

\* Lines 57-63: no frames, or the frames are written.
StageFrames(dir, latest_run_folder, source_files, copy_fails) ==
    IF source_files = <<>>
    THEN StageResult(dir, "None", "no_frames", latest_run_folder, 0)
    ELSE StageManifest(WriteFrames(dir, latest_run_folder, source_files),
                       latest_run_folder, Len(source_files), copy_fails)

\* Lines 50-56: the staging directory is made and the frames are listed.
StageRun(dir, latest_run_folder, copy_fails) ==
    StageFrames(MkdirStaging(dir), latest_run_folder,
                SourceFiles(dir[latest_run_folder].files), copy_fails)

\* stage_from_latest_run(parent_dir) on the directory dir.
stage_from_latest_run(dir, copy_fails) ==
    IF AllRuns(dir) = <<>>
    THEN StageResult(dir, "None", "no_runs", "none", 0)
    ELSE StageRun(dir, LatestRun(dir, AllRuns(dir)), copy_fails)

(***************************************************************************)
(* SpecStage: stage_from_latest_run is called again and again on the       *)
(* parent directory OUTPUT_BASE_DIR/deska while the frame generator adds   *)
(* run folders to it.                                                      *)
(***************************************************************************)

\* The children OUTPUT_BASE_DIR can hold.
OutNames == {"deska", "5[micro]m"}

NoParent == [kind |-> "none", entries |-> EmptyDir]

NoStageCall == [ret |-> "none", why |-> "none", run |-> "none", n |-> 0, fresh |-> FALSE,
                calls |-> 0, clean |-> TRUE]

Runs(dir) == {n \in RunNames : dir[n].kind # "none"}

\* A parent directory without runs; an earlier invocation may have left an
\* empty staging directory in it (mkdir comes before the frames are listed).
\* The daemon is not started in the specifications of the deployment.
StageInit ==
    /\ last_state = "None"
    /\ daemon_pc = "idle"
    /\ static_dir = {}
    /\ wallpaper = [mode |-> "initial", img |-> "None"]
    /\ tick = NoTick
    /\ prev = NoTick
    /\ \E start \in {EmptyDir, MkdirStaging(EmptyDir)} :
          out = [d \in OutNames |->
                   IF d = "deska" THEN [kind |-> "dir", entries |-> start] ELSE NoParent]
    /\ stage_call = NoStageCall
    /\ proj = <<>>
    /\ pc = "idle"
    /\ views_file = "ok"
    /\ projects_file = "ok"
    /\ views = <<>>
    /\ projs_raw = <<>>
    /\ stage_only_env = "0"
    /\ projects = <<>>
    /\ idx = 0
    /\ outcomes = <<>>
    /\ out0 = <<>>
    /\ proj0 = <<>>

\* The frame generator (or the user) leaves a new run folder, or a stray
\* file, in the parent directory.
NewRun(run, mtime, entry) ==
    /\ out["deska"].entries[run].kind = "none"
    /\ Cardinality(Runs(out["deska"].entries)) < MaxRuns
    /\ out' = [out EXCEPT !["deska"].entries[run] = entry]
    /\ stage_call' = [stage_call EXCEPT !.fresh = FALSE, !.calls = 0]
    /\ UNCHANGED <<daemonVars, mainVars>>

\* A call stage_from_latest_run(OUTPUT_BASE_DIR / "deska").
StageDone(r) ==
    /\ out' = [out EXCEPT !["deska"].entries = r.dir]
    /\ stage_call' = [ret |-> r.ret, why |-> r.why, run |-> r.run, n |-> r.n, fresh |-> TRUE,
                      calls |-> IF stage_call.calls < 2 THEN stage_call.calls + 1 ELSE 2,
                      clean |-> stage_call.clean /\ r.ret = "staging"]

Stage(copy_fails) ==
    /\ StageDone(stage_from_latest_run(out["deska"].entries, copy_fails))
    /\ UNCHANGED <<daemonVars, mainVars>>

StageNext ==
    \/ \E run \in RunNames, mtime \in 1 .. MaxTime, shape \in RunShapes :
          NewRun(run, mtime, RunFolder(run, mtime, shape))
    \/ \E run \in RunNames, mtime \in 1 .. MaxTime : NewRun(run, mtime, StrayFile(mtime))
    \/ \E copy_fails \in BOOLEAN : Stage(copy_fails)

SpecStage == StageInit /\ [][StageNext]_vars

(***************************************************************************)
(*        deploy-wallpaper.py: resolver, deployer and main()               *)
(***************************************************************************)

MaxViews == 2       \* views in views_config.json

\* config_loader.canonicalize (the module is not part of the sources at hand):
\* case and white space are normalised and the legacy micro sign is replaced
\* by the Greek mu; any other string is returned as it is.
canonicalize(raw) ==
    CASE raw \in {"DeskA", "deska ", "deska"} -> "deska"
      [] raw \in {"5[micro]m", "5[mu]m"}     -> "5[mu]m"
      [] OTHER                               -> raw

\* config_loader.build_view_key: the key of a view, canonicalized.  A view
\* is modelled by the name its attributes spell.
build_view_key(view) == canonicalize(view)

\* The names a view of views_config.json can spell.
ViewNames == {"DeskA", "5[micro]m", "ghost"}

\* The children of OUTPUT_BASE_DIR, in the order iterdir() lists them.
OutOrder == <<"5[micro]m", "deska ", "deska", "DeskA", "5[mu]m">>

\* The fallback scan taking any entry, directory or not.
find_parent_dir_for_key_nodircheck(output_root, canonical_key) ==
    IF canonical_key \in DOMAIN output_root /\ output_root[canonical_key].kind = "dir"
    THEN canonical_key
    ELSE LET hits == SelectSeq(OutOrder,
                        LAMBDA child : /\ child \in DOMAIN output_root
                                       /\ output_root[child].kind # "none"
                                       /\ canonicalize(child) = canonical_key)
         IN IF hits # <<>> THEN hits[1] ELSE "None"

\* find_parent_dir_for_key(output_root, canonical_key): the name of the child
\* found, or "None".
find_parent_dir_for_key(output_root, canonical_key) ==
    IF canonical_key \in DOMAIN output_root /\ output_root[canonical_key].kind = "dir"
    THEN canonical_key
    ELSE LET hits == SelectSeq(OutOrder,
                        LAMBDA child : /\ child \in DOMAIN output_root
                                       /\ output_root[child].kind = "dir"
                                       /\ canonicalize(child) = canonical_key)
         IN IF hits # <<>> THEN hits[1] ELSE "None"

\* STAGE_ONLY read with the comparison inverted.
STAGE_ONLY_inverted(env) == env # "1"

\* STAGE_ONLY = os.environ.get("STAGE_ONLY", "0") == "1"
STAGE_ONLY(env) == env = "1"

\* sorted(staging_dir.glob("frame_*.png")): the staging directory holds the
\* frames and current_manifest.json only.
StagedFrameNames(staging_files) == DOMAIN staging_files \ {"current_manifest.json"}

\* What the processing of one view leaves: the file system afterwards, ret
\* ("return", or "raise" when an exception leaves the call), why, the parent
\* directory and the project used, the frames copied and whether the
\* deployer warned about the manifest.
ViewResult(fs_out, fs_proj, ret, why, parent, project, copied, warned) ==
    [out |-> fs_out, proj |-> fs_proj, ret |-> ret, why |-> why, parent |-> parent,
     project |-> project, copied |-> copied, warned |-> warned]

\* Lines 107-114: the manifest is dropped next to the project; copy_fails
\* tells whether shutil.copy2 raises (the exception is caught).
CopyManifestToProject(staging_files, project, copy_fails) ==
    IF "current_manifest.json" \in DOMAIN staging_files /\ ~copy_fails
    THEN [project EXCEPT !.files = ("current_manifest.json" :>
                                       staging_files["current_manifest.json"]) @@ @]
    ELSE project

\* The copy loop stopping after the first frame.
CopyFrames_first(staging_files, project) ==
    [project EXCEPT !.materials.files =
        [f \in StagedFrameNames(staging_files) \cap {"frame_000.png"} |-> staging_files[f]] @@ @]

\* Lines 101-104: every frame_*.png of staging is copied into materials.
CopyFrames(staging_files, project) ==
    [project EXCEPT !.materials.files =
        [f \in StagedFrameNames(staging_files) |-> staging_files[f]] @@ @]

\* Lines 94-116 of deploy_latest_frames: the copy into the project.
DeployToProject(staging_files, project, copy_fails) ==
    IF project.materials.kind # "dir"
    THEN [project |-> project, why |-> "no_materials", copied |-> 0, warned |-> FALSE]
    ELSE [project |-> CopyManifestToProject(staging_files, CopyFrames(staging_files, project),
                                            copy_fails),
          why |-> "deployed",
          copied |-> Cardinality(StagedFrameNames(staging_files)),
          warned |-> "current_manifest.json" \in DOMAIN staging_files /\ copy_fails]

\* The project written back, the staging directory emptied when the
\* deployment found no materials directory.
DeployCopied_rollback(d, parent_dir, project_path, fs_out, fs_proj) ==
    ViewResult(IF d.why = "no_materials"
               THEN [fs_out EXCEPT ![parent_dir].entries["staging"].files = NoFiles]
               ELSE fs_out,
               [fs_proj EXCEPT ![project_path] = d.project], "return", d.why,
               parent_dir, project_path, d.copied, d.warned)

\* Lines 94-116, the project written back.
DeployCopied(d, parent_dir, project_path, fs_out, fs_proj) ==
    ViewResult(fs_out, [fs_proj EXCEPT ![project_path] = d.project], "return", d.why,
               parent_dir, project_path, d.copied, d.warned)

\* Lines 86-116 of deploy_latest_frames: after the stager, whose result is st.
DeployStaged(st, parent_dir, project_path, fs_out, fs_proj, env, deploy_fails) ==
    IF st.ret = "raise"
    THEN ViewResult(fs_out, fs_proj, "raise", st.why, parent_dir, project_path, 0, FALSE)
    ELSE IF st.ret = "None"
    THEN ViewResult(fs_out, fs_proj, "return", st.why, parent_dir, project_path, 0, FALSE)
    ELSE IF STAGE_ONLY(env)
    THEN ViewResult(fs_out, fs_proj, "return", "stage_only", parent_dir, project_path, 0, FALSE)
    ELSE DeployCopied(DeployToProject(st.dir["staging"].files, fs_proj[project_path],
                                      deploy_fails),
                      parent_dir, project_path, fs_out, fs_proj)

\* Lines 80-85 of deploy_latest_frames: the parent directory found (or not)
\* and staged.
DeployFrom(parent_dir, project_path, fs_out, fs_proj, env, stage_fails, deploy_fails) ==
    IF parent_dir = "None"
    THEN ViewResult(fs_out, fs_proj, "return", "no_source", "None", project_path, 0, FALSE)
    ELSE DeployStaged(stage_from_latest_run(fs_out[parent_dir].entries, stage_fails),
                      parent_dir, project_path,
                      [fs_out EXCEPT ![parent_dir].entries =
                          stage_from_latest_run(fs_out[parent_dir].entries, stage_fails).dir],
                      fs_proj, env, deploy_fails)

\* deploy_latest_frames(view_config, project_path_str) on the file system
\* (fs_out, fs_proj).  stage_fails and deploy_fails tell whether the copy of
\* the manifest raises in the stager and in the deployer.
deploy_latest_frames(view_config, project_path, fs_out, fs_proj, env, stage_fails, deploy_fails) ==
    DeployFrom(find_parent_dir_for_key(fs_out, build_view_key(view_config)),
               project_path, fs_out, fs_proj, env, stage_fails, deploy_fails)

\* p.get("view_name_base", "")
ViewNameBase(p) == IF "view_name_base" \in DOMAIN p THEN p["view_name_base"] ELSE ""

\* The dict of the projects keeping the first record of a key.
RECURSIVE BuildProjects_firstwins(_, _)
BuildProjects_firstwins(raw, dict) ==
    IF raw = <<>> THEN dict
    ELSE BuildProjects_firstwins(Tail(raw),
             dict @@ (canonicalize(ViewNameBase(Head(raw))) :> Head(raw)["project_path"]))

\* Lines 139-144 of main: the dict of the projects, later records overwriting
\* earlier ones of the same canonical key.
RECURSIVE BuildProjects(_, _)
BuildProjects(raw, dict) ==
    IF raw = <<>> THEN dict
    ELSE BuildProjects(Tail(raw),
                       (canonicalize(ViewNameBase(Head(raw))) :> Head(raw)["project_path"]) @@ dict)

\* The project of a key looked up without the membership tests: a key
\* without a project raises KeyError.
LookupProject_nocheck(dict, key) ==
    IF key \in DOMAIN dict THEN [found |-> TRUE, ret |-> "return", path |-> dict[key]]
    ELSE [found |-> FALSE, ret |-> "raise", path |-> "None"]

\* Lines 149-157 of main: the project of a view's key, by the key itself or
\* else by its canonicalized form; not found, the view is skipped.
LookupProject(dict, key) ==
    IF key \in DOMAIN dict THEN [found |-> TRUE, ret |-> "return", path |-> dict[key]]
    ELSE IF canonicalize(key) \in DOMAIN dict
    THEN [found |-> TRUE, ret |-> "return", path |-> dict[canonicalize(key)]]
    ELSE [found |-> FALSE, ret |-> "return", path |-> "None"]

\* Lines 148-157 of main: the body of `for view in views`, the lookup done.
MainLoopFound(look, view, fs_out, fs_proj, env, stage_fails, deploy_fails) ==
    IF look.found
    THEN deploy_latest_frames(view, look.path, fs_out, fs_proj, env, stage_fails, deploy_fails)
    ELSE ViewResult(fs_out, fs_proj, look.ret, "no_project", "None", "None", 0, FALSE)

\* Lines 148-157 of main: the body of `for view in views`.
MainLoopBody(view, dict, fs_out, fs_proj, env, stage_fails, deploy_fails) ==
    MainLoopFound(LookupProject(dict, build_view_key(view)), view, fs_out, fs_proj, env,
                  stage_fails, deploy_fails)

\* Lines 130-137 of main with the error of projects.json swallowed.
AfterLoadProjects_goon(file) == "loop"

\* Lines 121-128 of main: where main goes after reading views_config.json.
AfterLoadViews(file) == IF file = "ok" THEN "load_projects" ELSE "aborted"

\* Lines 130-137 of main: where main goes after reading projects.json.
AfterLoadProjects(file) == IF file = "ok" THEN "loop" ELSE "aborted"

(***************************************************************************)
(* SpecDeploy: main() is run, and run again, over a list of views.         *)
(***************************************************************************)

\* ---- the inputs main() is run on

RECURSIVE SeqsUpTo(_, _)
SeqsUpTo(S, n) ==
    IF n = 0 THEN {<<>>}
    ELSE SeqsUpTo(S, n - 1) \cup {Append(q, x) : q \in {r \in SeqsUpTo(S, n - 1) : Len(r) = n - 1}, x \in S}

\* The contents projects.json can have.
ProjectFiles ==
    { <<>>,
      << [view_name_base |-> "DeskA", project_path |-> "/p1"],
         [view_name_base |-> "5[mu]m", project_path |-> "/p2"] >>,
      << [view_name_base |-> "deska", project_path |-> "/p1"],
         [project_path |-> "/p1"],
         [view_name_base |-> "ghost", project_path |-> "/p1"],
         [view_name_base |-> "deska ", project_path |-> "/p2"] >> }

ProjectPaths == {"/p1", "/p2"}

\* The parent directories OUTPUT_BASE_DIR can hold when main() starts.
ParentNoRuns == [kind |-> "dir", entries |-> EmptyDir]
ParentNoFrames ==
    [kind |-> "dir",
     entries |-> [EmptyDir EXCEPT !["run_a"] = RunFolder("run_a", 1, {"notes.txt"})]]
ParentWithFrames ==
    [kind |-> "dir",
     entries |-> [EmptyDir EXCEPT
                    !["run_a"] = RunFolder("run_a", 2, {"b.png", "a.png", "manifest.json"}),
                    !["run_c"] = RunFolder("run_c", 1, {"a.png", "b.png", "c.png"})]]
ParentNoManifest ==
    [kind |-> "dir",
     entries |-> [EmptyDir EXCEPT !["run_b"] = RunFolder("run_b", 1, {"a.png", "notes.txt"})]]

\* What earlier runs of main() can have left: run_a was staged when it was
\* the only run; the generator has added the shorter run_b since.
ParentStale ==
    [kind |-> "dir",
     entries |-> [stage_from_latest_run(
                      [EmptyDir EXCEPT !["run_a"] =
                          RunFolder("run_a", 1, {"a.png", "b.png", "manifest.json"})],
                      FALSE).dir
                  EXCEPT !["run_b"] = RunFolder("run_b", 2, {"a.png"})]]

OutChoices(d) ==
    IF d = "deska" THEN {NoParent, ParentNoRuns, ParentNoFrames, ParentWithFrames, ParentStale}
    ELSE {NoParent, ParentNoManifest}

\* A project with or without its materials directory; frames of an earlier
\* deployment may lie in it.
ProjectChoices ==
    { [materials |-> [kind |-> "none", files |-> NoFiles],
       files |-> ("project.json" :> <<"we", "project.json">>)],
      [materials |-> [kind |-> "dir", files |-> ("frame_000.png" :> <<"old", "frame">>)],
       files |-> ("project.json" :> <<"we", "project.json">>)] }

\* The lists views_config.json can hold and the file systems main() can start on.
ViewLists == SeqsUpTo(ViewNames, MaxViews)
OutStates == {o \in [OutNames -> UNION {OutChoices(d) : d \in OutNames}] :
                 \A d \in OutNames : o[d] \in OutChoices(d)}
ProjStates == [ProjectPaths -> ProjectChoices]

MainInit ==
    /\ last_state = "None"
    /\ daemon_pc = "idle"
    /\ static_dir = {}
    /\ wallpaper = [mode |-> "initial", img |-> "None"]
    /\ tick = NoTick
    /\ prev = NoTick
    /\ stage_call = NoStageCall
    /\ pc = "start"
    /\ views_file \in {"ok", "missing", "invalid"}
    /\ projects_file \in {"ok", "missing", "invalid"}
    /\ views \in (IF views_file = "ok" THEN ViewLists ELSE {<<>>})
    /\ projs_raw \in (IF projects_file = "ok" THEN ProjectFiles ELSE {<<>>})
    /\ stage_only_env \in {"0", "1"}
    /\ projects = <<>>
    /\ idx = 0
    /\ outcomes = <<>>
    /\ out \in OutStates
    /\ proj \in ProjStates
    /\ out0 = out
    /\ proj0 = proj

\* Lines 162-163: the script is run (again), on the file system and the
\* configuration as they are: main() is called.
StartMain ==
    /\ pc \in {"idle", "done", "aborted", "crashed"}
    /\ pc' = "start"
    /\ projects' = <<>>
    /\ idx' = 0
    /\ outcomes' = <<>>
    /\ out0' = out
    /\ proj0' = proj
    /\ UNCHANGED <<proj, views_file, projects_file, views, projs_raw, stage_only_env>>
    /\ UNCHANGED <<daemonVars, stageVars>>

\* Lines 121-128 of main.
LoadViews ==
    /\ pc = "start"
    /\ pc' = AfterLoadViews(views_file)
    /\ UNCHANGED <<proj, views_file, projects_file, views, projs_raw, stage_only_env,
                   projects, idx, outcomes, out0, proj0>>
    /\ UNCHANGED <<daemonVars, stageVars>>

\* Lines 130-144 of main.
LoadProjects ==
    /\ pc = "load_projects"
    /\ pc' = AfterLoadProjects(projects_file)
    /\ IF pc' = "loop"
       THEN projects' = BuildProjects(projs_raw, <<>>) /\ idx' = 1
       ELSE UNCHANGED <<projects, idx>>
    /\ UNCHANGED <<proj, views_file, projects_file, views, projs_raw, stage_only_env,
                   outcomes, out0, proj0>>
    /\ UNCHANGED <<daemonVars, stageVars>>

\* One iteration of `for view in views` (lines 147-157), r being what the
\* body of the loop leaves.
ViewDone(r) ==
    /\ out' = r.out
    /\ proj' = r.proj
    /\ outcomes' = Append(outcomes,
           [view |-> views[idx], why |-> r.why, parent |-> r.parent,
            project |-> r.project, copied |-> r.copied, warned |-> r.warned])
    /\ pc' = IF r.ret = "raise" THEN "crashed" ELSE "loop"
    /\ idx' = IF r.ret = "raise" THEN idx ELSE idx + 1

ProcessView(stage_fails, deploy_fails) ==
    /\ pc = "loop"
    /\ idx <= Len(views)
    /\ ViewDone(MainLoopBody(views[idx], projects, out, proj, stage_only_env,
                             stage_fails, deploy_fails))
    /\ UNCHANGED <<stage_call, views_file, projects_file, views, projs_raw, stage_only_env,
                   projects, out0, proj0>>
    /\ UNCHANGED daemonVars

\* Line 159 of main: the summary.
Finish ==
    /\ pc = "loop"
    /\ idx > Len(views)
    /\ pc' = "done"
    /\ UNCHANGED <<proj, views_file, projects_file, views, projs_raw, stage_only_env,
                   projects, idx, outcomes, out0, proj0>>
    /\ UNCHANGED <<daemonVars, stageVars>>

MainNext ==
    \/ StartMain
    \/ LoadViews
    \/ LoadProjects
    \/ \E stage_fails \in BOOLEAN, deploy_fails \in BOOLEAN : ProcessView(stage_fails, deploy_fails)
    \/ Finish

SpecDeploy == MainInit /\ [][MainNext]_vars

(***************************************************************************)
(* SpecResolve: main() over one view, on every OUTPUT_BASE_DIR whose        *)
(* children are directories or plain files named by the key or by its      *)
(* variants: the inputs of find_parent_dir_for_key.                        *)
(***************************************************************************)

RootNames == {OutOrder[i] : i \in DOMAIN OutOrder}

\* A plain file among the children of OUTPUT_BASE_DIR.
RootFile == [kind |-> "file", entries |-> EmptyDir]

RootStates == [RootNames -> {NoParent, RootFile, ParentNoManifest}]

\* A projects.json with a project for every view.
ResolveProjects ==
    << [view_name_base |-> "DeskA", project_path |-> "/p1"],
       [view_name_base |-> "5[micro]m", project_path |-> "/p2"],
       [view_name_base |-> "ghost", project_path |-> "/p1"] >>

ResolveInit ==
    /\ last_state = "None"
    /\ daemon_pc = "idle"
    /\ static_dir = {}
    /\ wallpaper = [mode |-> "initial", img |-> "None"]
    /\ tick = NoTick
    /\ prev = NoTick
    /\ stage_call = NoStageCall
    /\ pc = "start"
    /\ views_file = "ok"
    /\ projects_file = "ok"
    /\ views \in {<<v>> : v \in ViewNames}
    /\ projs_raw = ResolveProjects
    /\ stage_only_env = "0"
    /\ projects = <<>>
    /\ idx = 0
    /\ outcomes = <<>>
    /\ out \in RootStates
    /\ proj = [p \in ProjectPaths |->
                 [materials |-> [kind |-> "dir", files |-> NoFiles], files |-> NoFiles]]
    /\ out0 = out
    /\ proj0 = proj

SpecResolve == ResolveInit /\ [][MainNext]_vars

(***************************************************************************)
(* SpecProjects: main() over one view, on every projects.json of up to     *)
(* MaxRecords records: the inputs of the project map.                      *)
(***************************************************************************)

MaxRecords == 3     \* records in projects.json

\* The records of projects.json: a base name (or none) and a path.
ProjectRecords ==
    {[view_name_base |-> b, project_path |-> p] :
        b \in {"DeskA", "deska ", "5[micro]m"}, p \in ProjectPaths}
    \cup {[project_path |-> p] : p \in ProjectPaths}

ProjectLists == SeqsUpTo(ProjectRecords, MaxRecords)

ProjectsInit ==
    /\ last_state = "None"
    /\ daemon_pc = "idle"
    /\ static_dir = {}
    /\ wallpaper = [mode |-> "initial", img |-> "None"]
    /\ tick = NoTick
    /\ prev = NoTick
    /\ stage_call = NoStageCall
    /\ pc = "start"
    /\ views_file = "ok"
    /\ projects_file = "ok"
    /\ views \in {<<v>> : v \in ViewNames}
    /\ projs_raw \in ProjectLists
    /\ stage_only_env = "0"
    /\ projects = <<>>
    /\ idx = 0
    /\ outcomes = <<>>
    /\ out = [d \in OutNames |-> IF d = "deska" THEN ParentWithFrames ELSE ParentNoManifest]
    /\ proj = [p \in ProjectPaths |->
                 [materials |-> [kind |-> "dir", files |-> NoFiles], files |-> NoFiles]]
    /\ out0 = out
    /\ proj0 = proj

SpecProjects == ProjectsInit /\ [][MainNext]_vars

(***************************************************************************)
(* SpecBoth: the daemon polls while deploy-wallpaper.py is started, runs   *)
(* and ends; the process list the daemon reads tells the truth about the   *)
(* deployment process.                                                     *)
(***************************************************************************)

\* The deployment process exists: main() has been entered and has not left.
DeployRunning == pc \in {"start", "load_projects", "loop"}

BothInit ==
    /\ last_state = "None"
    /\ daemon_pc = "running"
    /\ static_dir = {"s1.jpg", "s2.png"}
    /\ wallpaper = [mode |-> "initial", img |-> "None"]
    /\ tick = NoTick
    /\ prev = NoTick
    /\ stage_call = NoStageCall
    /\ pc = "idle"
    /\ views_file = "ok"
    /\ projects_file = "ok"
    /\ views \in {<<"DeskA">>, <<"DeskA", "5[micro]m">>}
    /\ projs_raw = ResolveProjects
    /\ stage_only_env = "0"
    /\ projects = <<>>
    /\ idx = 0
    /\ outcomes = <<>>
    /\ out = [d \in OutNames |-> IF d = "deska" THEN ParentWithFrames ELSE ParentNoManifest]
    /\ proj = [p \in ProjectPaths |->
                 [materials |-> [kind |-> "dir", files |-> NoFiles], files |-> NoFiles]]
    /\ out0 = out
    /\ proj0 = proj

\* One iteration of daemon_loop (every CHECK_INTERVAL seconds) whose
\* tasklist query succeeds and shows the deployment process iff it exists.
WatchTick ==
    \E q \in QueryOutcomes, img \in StaticFiles \cup {"None"} :
        /\ q.ok
        /\ is_deploy_running(q).value <=> DeployRunning
        /\ Tick(q, img)

BothNext ==
    \/ MainNext
    \/ WatchTick

SpecBoth == BothInit /\ [][BothNext]_vars

(***************************************************************************)
(*                     Claims about the Mode Arbiter                       *)
(***************************************************************************)

Ticked == tick.query # "none"

\* C1 (as stated): on every tick at which the watcher reports active and the
\* held state is not Static, a static-image switch is issued and the held
\* state after the tick is Static, whatever the static image pool holds, an
\* empty pool included.
C1_ActiveAlwaysSwitches ==
    (Ticked /\ tick.active /\ tick.before # "static")
        => (tick.issued = "static" /\ tick.after = "static")

\* C1 (amended): on every tick at which the watcher reports active and the
\* held state is not Static: if the pool holds an image, a static-image switch
\* to an image of the pool is issued and the held state after the tick is
\* Static; if the pool is empty, no switch is issued and the held state and
\* the wallpaper mode stay as they were.
C1_ActiveSwitchesIfPool ==
    /\ tick.after = last_state
    /\ (Ticked /\ tick.active /\ tick.before # "static" /\ tick.pool # {})
          => /\ tick.issued = "static"
             /\ tick.after = "static"
             /\ wallpaper.mode = "static"
             /\ wallpaper.img \in tick.pool
    /\ (Ticked /\ tick.active /\ tick.before # "static" /\ tick.pool = {})
          => /\ tick.issued = "none"
             /\ tick.after = tick.before
             /\ wallpaper.mode # "static"

C1_Witness ==
    /\ Ticked /\ tick.active /\ tick.before = "satellite" /\ tick.pool # {}
    /\ last_state = "static" /\ wallpaper.mode = "static"

BothActive == prev.query # "none" /\ Ticked /\ prev.active /\ tick.active

StaticSwitches == (IF prev.issued = "static" THEN 1 ELSE 0)
                  + (IF tick.issued = "static" THEN 1 ELSE 0)

\* C2 (as stated): two consecutive ticks that both observe "deploy active",
\* the first of them met in a state other than Static, trigger exactly one
\* static-mode switch.
C2_ExactlyOneSwitch ==
    (BothActive /\ prev.before # "static") => StaticSwitches = 1

\* C2 (amended): two consecutive ticks that both observe "deploy active"
\* never trigger two static-mode switches; they trigger exactly one when the
\* first is met in a state other than Static with a non-empty pool (the first
\* tick issues it), and none when the pool is empty at both.  A tick whose
\* observation agrees with the held state (active while Static, inactive
\* while Live) issues no mode-switch call and leaves the held state unchanged.
C2_Debounced ==
    /\ BothActive => StaticSwitches <= 1
    /\ (BothActive /\ prev.before # "static" /\ prev.pool # {})
          => (prev.issued = "static" /\ tick.issued = "none")
    /\ (BothActive /\ prev.pool = {} /\ tick.pool = {}) => StaticSwitches = 0
    /\ (Ticked /\ (   (tick.active /\ tick.before = "static")
                   \/ (~tick.active /\ tick.before = "satellite")))
          => (tick.issued = "none" /\ tick.after = tick.before)

C2_Witness ==
    /\ BothActive /\ prev.before = "None"
    /\ prev.issued = "static" /\ tick.before = "static" /\ tick.issued = "none"
    /\ last_state = "static"

\* C3: a tick on which the process-list query fails is handled as "inactive":
\* no exception leaves is_deploy_running, the loop keeps running, the held
\* state after the tick is Live, and a live-renderer switch is issued iff the
\* state before was not Live.  If the query fails on every tick from some
\* point on, the held state becomes Live and stays Live for ever.
C3_FailSafe ==
    /\ [](daemon_pc = "running" /\ ENABLED DaemonTick)
    /\ [](tick.query = "error"
            => /\ ~tick.active
               /\ tick.after = "satellite" /\ last_state = "satellite"
               /\ (tick.issued = "live" <=> tick.before # "satellite")
               /\ (tick.issued = "live" => wallpaper.mode = "live"))
    /\ (<>[][DaemonTick => tick'.query = "error"]_vars => <>[](last_state = "satellite"))

C3_Witness ==
    /\ tick.query = "error" /\ tick.before = "static" /\ tick.issued = "live"
    /\ last_state = "satellite" /\ wallpaper.mode = "live" /\ daemon_pc = "running"

\* C14: Unknown is only the initial state of daemon_loop: the held state is
\* always one of Unknown, Static, Live, and once it is Static or Live every
\* later step leaves it Static or Live; it is never Unknown again.
C14_UnknownOnlyInitial ==
    /\ [](last_state \in {"None", "static", "satellite"})
    /\ [](tick.after # "None" => last_state # "None")
    /\ [][last_state # "None" => last_state' \in {"static", "satellite"}]_vars

C14_Witness ==
    /\ prev.before = "None" /\ prev.after = "satellite"
    /\ tick.active /\ tick.pool = {} /\ tick.before = "satellite"
    /\ last_state = "satellite"

\* C19: the held state mirrors the last mode-switch call issued: it is
\* Unknown iff no call has been issued yet, Static iff the most recent call
\* was set_static_wallpaper, Live iff it was restore_wallpaper_engine; so
\* every call issued is of the other kind than the one issued before it.
C19_HeldStateMirrorsLastSwitch ==
    /\ [](/\ last_state = "None" <=> wallpaper.mode = "initial"
          /\ last_state = "static" <=> wallpaper.mode = "static"
          /\ last_state = "satellite" <=> wallpaper.mode = "live")
    /\ [][(tick' # tick /\ tick'.issued # "none")
             => (tick'.issued # wallpaper.mode /\ wallpaper'.mode = tick'.issued)]_vars

C19_Witness ==
    /\ prev.issued = "static" /\ tick.issued = "live" /\ tick.before = "static"
    /\ prev.before = "satellite"
    /\ wallpaper.mode = "live" /\ last_state = "satellite"

(***************************************************************************)
(*                        Claims about the Stager                          *)
(***************************************************************************)

Parent == out["deska"].entries
StagingFiles == Parent["staging"].files
StagedFrames == DOMAIN StagingFiles \ {"current_manifest.json"}
Staged == stage_call.ret = "staging"

\* The literal names of the first staged frames.
ExpectedFrame == <<"frame_000.png", "frame_001.png", "frame_002.png">>

\* C7: whenever stage_from_latest_run succeeds on a parent directory whose
\* latest run holds K PNG frames, the frame files present in staging are
\* exactly frame_000.png ... frame_(K-1).png, also when an earlier
\* invocation staged a run with more than K frames.
C7_StagingHoldsExactlyKFrames ==
    Staged => StagedFrames = {ExpectedFrame[i] : i \in 1 .. stage_call.n}

\* The PNG files of the run the most recent call selected.
SelectedPngs == {f \in DOMAIN Parent[stage_call.run].files : IsPng(f)}
\* The i-th (from 0) of them in ascending lexical order.
IthPng(i) ==
    CHOOSE f \in SelectedPngs :
        Cardinality({g \in SelectedPngs : LexRank(g) < LexRank(f)}) = i

\* C8: after a successful stage_from_latest_run, for every i from 0 to K-1
\* the staged file frame_i (zero-padded to 3 digits) holds the bytes of the
\* i-th PNG of the selected run in ascending lexical order of the names, K
\* being the number of its PNG files; no staged frame holds a non-PNG file.
C8_FramesInLexicalOrder ==
    (Staged /\ stage_call.fresh)
        => /\ stage_call.n = Cardinality(SelectedPngs)
           /\ \A i \in 0 .. stage_call.n - 1 :
                 /\ ExpectedFrame[i + 1] \in DOMAIN StagingFiles
                 /\ StagingFiles[ExpectedFrame[i + 1]] = Parent[stage_call.run].files[IthPng(i)]
           /\ \A f \in StagedFrames : IsPng(StagingFiles[f][2])

C8_Witness ==
    /\ Staged /\ stage_call.fresh /\ stage_call.n = 3
    /\ "notes.txt" \in DOMAIN Parent[stage_call.run].files
    /\ StagingFiles["frame_000.png"] = <<stage_call.run, "a.png">>
    /\ StagingFiles["frame_002.png"] = <<stage_call.run, "c.png">>

\* The immediate subdirectories of the parent other than staging.
RunDirs == {d \in EntryNames : Parent[d].kind = "dir" /\ d # "staging"}

\* C9: stage_from_latest_run selects, among the immediate subdirectories of
\* the parent other than `staging`, one with the maximum modification time,
\* whatever the folder names are; it reports "no runs found" exactly when
\* there is no such subdirectory (a parent holding only `staging`, or only
\* plain files, has no runs).
C9_LatestRunByMtime ==
    stage_call.fresh
        => /\ (stage_call.why = "no_runs") <=> (RunDirs = {})
           /\ (stage_call.why = "no_runs") => (stage_call.ret = "None" /\ stage_call.run = "none")
           /\ (stage_call.why # "no_runs")
                 => /\ stage_call.run \in RunDirs
                    /\ \A d \in RunDirs : Parent[d].mtime <= Parent[stage_call.run].mtime

C9_Witness ==
    /\ stage_call.fresh /\ stage_call.run = "run_a"
    /\ Parent["run_c"].kind = "dir" /\ Parent["run_c"].mtime < Parent["run_a"].mtime

\* C9, its second case: only `staging` is left in the parent.
C9_WitnessOnlyStaging ==
    /\ stage_call.fresh /\ stage_call.why = "no_runs"
    /\ Parent["staging"].kind = "dir" /\ RunDirs = {}

\* C18: staging is idempotent: when the run folders of the parent are
\* unchanged, a second stage_from_latest_run leaves the parent directory
\* (the staging directory's file names and contents, frames and
\* current_manifest.json) as the first one left it, selects the same run and
\* returns the same.
C18_StagingIdempotent ==
    [][(/\ stage_call.fresh /\ stage_call.ret # "raise"
        /\ stage_call'.fresh /\ stage_call'.ret # "raise")
          => /\ out' = out
             /\ stage_call'.run = stage_call.run
             /\ stage_call'.ret = stage_call.ret
             /\ stage_call'.n = stage_call.n]_vars

C18_Witness ==
    /\ stage_call.fresh /\ stage_call.calls = 2 /\ Staged /\ stage_call.n = 3
    /\ "current_manifest.json" \in DOMAIN StagingFiles
    /\ Cardinality(RunDirs) = 2

\* C20: after any sequence of successful invocations of
\* stage_from_latest_run, a current_manifest.json present in staging is a
\* copy of the manifest.json of the run the most recent invocation staged,
\* also when that run has no manifest.json and an earlier staged run had one.
C20_ManifestFromStagedRun ==
    (Staged /\ stage_call.clean /\ "current_manifest.json" \in DOMAIN StagingFiles)
        => /\ "manifest.json" \in DOMAIN Parent[stage_call.run].files
           /\ StagingFiles["current_manifest.json"] = Parent[stage_call.run].files["manifest.json"]

(***************************************************************************)
(*                     Claims about the orchestrator                       *)
(***************************************************************************)

\* The recoverable failures of a view.
Recoverable == {"no_project", "no_source", "no_runs", "no_frames", "no_materials"}

FailedAt(i) == outcomes[i].why \in Recoverable

\* The file system main() would leave had the failed views not been in the
\* list: the views processed so far that did not fail, run one after the
\* other from the file system main() started on.
FsOf(r) == [out |-> r.out, proj |-> r.proj]
ReplayView(o, fs) ==
    FsOf(MainLoopBody(o.view, projects, fs.out, fs.proj, stage_only_env, FALSE, o.warned))
RECURSIVE Replay(_, _)
Replay(i, fs) ==
    IF i > Len(outcomes) THEN fs
    ELSE Replay(i + 1, IF FailedAt(i) THEN fs ELSE ReplayView(outcomes[i], fs))
WithoutFailed == Replay(1, [out |-> out0, proj |-> proj0])

\* The parent directories the failed views were resolved to.
FailedParents == {outcomes[i].parent : i \in {j \in DOMAIN outcomes : FailedAt(j)}}

\* C4: whatever the views and whichever recoverable failures they meet (no
\* matching project, source folder not found, no run folders, no PNG frames,
\* no materials directory), main's loop processes every view in input order;
\* a failure only skips that view: it ends neither the loop nor the run,
\* copies nothing into a project, and every other view is staged and
\* deployed as if the failed views were not in the list; the run reaches its
\* summary.
C4_FailureIsolation ==
    /\ pc \in {"loop", "done", "crashed"}
          => /\ Len(outcomes) = (IF pc = "crashed" THEN idx ELSE idx - 1)
             /\ \A i \in DOMAIN outcomes : outcomes[i].view = views[i]
    /\ \A i \in DOMAIN outcomes :
          FailedAt(i) => (outcomes[i].copied = 0 /\ (i < Len(outcomes) \/ pc # "crashed"))
    /\ pc \in {"loop", "done"}
          => /\ proj = WithoutFailed.proj
             /\ \A d \in OutNames \ FailedParents : out[d] = WithoutFailed.out[d]
    /\ pc = "loop" => idx \in 1 .. Len(views) + 1
    /\ (pc = "loop" /\ idx = Len(views) + 1) => ENABLED Finish
    /\ pc = "done" => Len(outcomes) = Len(views)

C4_Witness ==
    /\ pc = "done" /\ Len(views) = 2
    /\ outcomes[1].why = "no_materials" /\ outcomes[2].why = "deployed"
    /\ outcomes[2].copied = 1

\* C5: a failure while copying the manifest, from the selected run into
\* staging or from staging into the project, never aborts the surrounding
\* operation: the step completes and main goes on to the remaining views.
C5_ManifestCopyNeverAborts ==
    /\ pc # "crashed"
    /\ \A i \in DOMAIN outcomes : outcomes[i].why # "manifest_copy"

\* C6: if views_config.json or projects.json is missing or is not valid
\* JSON, main returns before any view is processed: no staging directory is
\* made, no frame is staged and nothing is written to any project, whichever
\* of the two files is the bad one.
C6_FatalConfigHalts ==
    (views_file # "ok" \/ projects_file # "ok")
        => /\ pc \in {"start", "load_projects", "aborted"}
           /\ pc = "load_projects" => views_file = "ok"
           /\ outcomes = <<>>
           /\ out = out0
           /\ proj = proj0

C6_Witness ==
    /\ pc = "aborted" /\ views_file = "ok" /\ projects_file = "invalid"
    /\ Len(views) = 2 /\ out["deska"] = ParentWithFrames

\* C10: with STAGE_ONLY=1, processing a view resolves and stages but leaves
\* the project untouched: nothing under project_path/materials and no
\* project_path/current_manifest.json is created or changed, for every view
\* and whether or not materials exists.
C10_StageOnlyLeavesProject ==
    stage_only_env = "1"
        => /\ proj = proj0
           /\ \A i \in DOMAIN outcomes :
                 /\ outcomes[i].why \notin {"deployed", "no_materials"}
                 /\ outcomes[i].copied = 0
                 /\ outcomes[i].why = "stage_only"
                       => /\ outcomes[i].parent \in OutNames
                          /\ "frame_000.png" \in
                                DOMAIN out[outcomes[i].parent].entries["staging"].files

C10_Witness ==
    /\ stage_only_env = "1" /\ Len(outcomes) = 2
    /\ outcomes[1].why = "stage_only" /\ outcomes[2].why = "stage_only"
    /\ proj0[outcomes[1].project].materials.kind = "dir"
    /\ proj0[outcomes[2].project].materials.kind = "none"

(***************************************************************************)
(*              Claims about the steps of the orchestrator                 *)
(***************************************************************************)

\* A step that processes one view, and what it recorded.
ViewStep == Len(outcomes') = Len(outcomes) + 1
Done == outcomes'[Len(outcomes')]
StagingAfter == out'[Done.parent].entries["staging"].files
FrameFiles(files) == DOMAIN files \cap {ExpectedFrame[i] : i \in DOMAIN ExpectedFrame}

\* C11: run folders are read-only to the pipeline: no step of any run of
\* main() creates, deletes or changes anything in a parent directory other
\* than its staging directory, or anything in a project other than the files
\* of materials and current_manifest.json.
C11_RunFoldersReadOnly ==
    [][/\ \A d \in OutNames :
             /\ out'[d].kind = out[d].kind
             /\ \A n \in EntryNames \ {"staging"} : out'[d].entries[n] = out[d].entries[n]
       /\ \A p \in ProjectPaths :
             /\ proj'[p].materials.kind = proj[p].materials.kind
             /\ DOMAIN proj'[p].files \subseteq DOMAIN proj[p].files \cup {"current_manifest.json"}
             /\ \A f \in DOMAIN proj[p].files \ {"current_manifest.json"} :
                   f \in DOMAIN proj'[p].files /\ proj'[p].files[f] = proj[p].files[f]]_vars

C11_Witness ==
    /\ pc = "done" /\ Len(outcomes) = 2
    /\ outcomes[1].why = "deployed" /\ outcomes[1].parent = "deska"
    /\ out0["deska"] # ParentWithFrames
    /\ out["deska"].entries["run_c"] = ParentWithFrames.entries["run_c"]
    /\ out["deska"].entries["run_a"] = ParentWithFrames.entries["run_a"]
    /\ "current_manifest.json" \in DOMAIN proj[outcomes[1].project].files

\* C16: for each matched view the steps run in the order resolve, stage,
\* deploy: a view whose parent directory is not found stages nothing; nothing
\* is written to a project unless the staging of that view has succeeded; and
\* when the deployment finds no materials directory, the staging directory
\* keeps the frames just staged from the latest run and the projects are
\* left unchanged.
C16_PipelineOrderNoRollback ==
    [][ViewStep =>
         /\ Done.why \in {"no_project", "no_source"} => (Done.parent = "None" /\ out' = out)
         /\ Done.why # "deployed" => (proj' = proj /\ Done.copied = 0)
         /\ Done.why \in {"deployed", "stage_only", "no_materials"}
               => LET st == stage_from_latest_run(out[Done.parent].entries, FALSE) IN
                  /\ st.ret = "staging" /\ st.n > 0
                  /\ out'[Done.parent].entries = st.dir
                  /\ \A i \in 1 .. st.n :
                        /\ ExpectedFrame[i] \in DOMAIN StagingAfter
                        /\ StagingAfter[ExpectedFrame[i]][1] = st.run
         /\ Done.why = "deployed"
               => \A f \in FrameFiles(proj'[Done.project].materials.files)
                           \ FrameFiles(proj[Done.project].materials.files) :
                     f \in DOMAIN StagingAfter]_vars

C16_Witness ==
    /\ Len(outcomes) = 1 /\ outcomes[1].why = "no_materials" /\ outcomes[1].parent = "deska"
    /\ out0["deska"] = ParentStale
    /\ out["deska"].entries["staging"].files["frame_000.png"] = <<"run_b", "a.png">>
    /\ proj = proj0

\* C17: after a deployment of a view that succeeds with stage_only false,
\* every frame_*.png file of the staging directory has a file of the same
\* name and the same bytes in project_path/materials, and the count of
\* copied frames reported equals the number of frame_*.png files in staging.
C17_DeployerComplete ==
    [][(ViewStep /\ Done.why = "deployed")
         => /\ ~STAGE_ONLY(stage_only_env)
            /\ \A f \in FrameFiles(StagingAfter) :
                  /\ f \in DOMAIN proj'[Done.project].materials.files
                  /\ proj'[Done.project].materials.files[f] = StagingAfter[f]
            /\ Done.copied = Cardinality(FrameFiles(StagingAfter))]_vars

C17_Witness ==
    /\ Len(outcomes) = 1 /\ outcomes[1].why = "deployed" /\ outcomes[1].copied = 2
    /\ out0["deska"] = ParentStale
    /\ proj[outcomes[1].project].materials.files["frame_000.png"] = <<"run_b", "a.png">>
    /\ proj[outcomes[1].project].materials.files["frame_001.png"] = <<"run_a", "b.png">>

(***************************************************************************)
(*          Claims about the project map and the Source Resolver           *)
(***************************************************************************)

\* The canonical key of the i-th record of projects.json.
KeyOfRecord(i) == canonicalize(ViewNameBase(projs_raw[i]))

\* The last record of projects.json with the canonical key k.
LastRecordOf(k) ==
    CHOOSE i \in DOMAIN projs_raw :
        KeyOfRecord(i) = k /\ \A j \in DOMAIN projs_raw : KeyOfRecord(j) = k => j <= i

\* C12: the project map is last-wins on the canonical key: for every list of
\* project records, the map main builds has exactly one entry for each
\* distinct canonicalize(view_name_base), and its value is the project_path
\* of the last record, in input order, with that canonical key.
C12_ProjectMapLastWins ==
    pc \in {"loop", "done", "crashed"}
        => /\ DOMAIN projects = {KeyOfRecord(i) : i \in DOMAIN projs_raw}
           /\ \A k \in DOMAIN projects :
                 projects[k] = projs_raw[LastRecordOf(k)]["project_path"]

C12_Witness ==
    /\ pc = "loop" /\ Len(projs_raw) = 3
    /\ projs_raw[1] = [view_name_base |-> "DeskA", project_path |-> "/p1"]
    /\ projs_raw[2] = [view_name_base |-> "5[micro]m", project_path |-> "/p1"]
    /\ projs_raw[3] = [view_name_base |-> "deska ", project_path |-> "/p2"]
    /\ DOMAIN projects = {"deska", "5[mu]m"}
    /\ projects["deska"] = "/p2"

\* The children of OUTPUT_BASE_DIR that are directories.
IsRootDir(n) == n \in DOMAIN out /\ out[n].kind = "dir"

\* The directories whose canonicalized name is key.
Variants(key) == {n \in DOMAIN out : IsRootDir(n) /\ canonicalize(n) = key}

\* C13: find_parent_dir_for_key returns the subdirectory named exactly
\* canonical_key when that is a directory; otherwise a subdirectory whose
\* canonicalized name equals canonical_key; it returns None exactly when no
\* subdirectory matches either way, and it never returns an entry that is
\* not a directory.
C13_SourceResolver ==
    \A i \in DOMAIN outcomes :
        outcomes[i].why # "no_project"
            => /\ IsRootDir(build_view_key(outcomes[i].view))
                     => outcomes[i].parent = build_view_key(outcomes[i].view)
               /\ (/\ ~IsRootDir(build_view_key(outcomes[i].view))
                   /\ Variants(build_view_key(outcomes[i].view)) # {})
                     => outcomes[i].parent \in Variants(build_view_key(outcomes[i].view))
               /\ (outcomes[i].parent = "None")
                     <=> (/\ ~IsRootDir(build_view_key(outcomes[i].view))
                          /\ Variants(build_view_key(outcomes[i].view)) = {})
               /\ outcomes[i].parent # "None" => IsRootDir(outcomes[i].parent)
               /\ (outcomes[i].why = "no_source") <=> (outcomes[i].parent = "None")

C13_Witness ==
    /\ Len(outcomes) = 1 /\ outcomes[1].view = "5[micro]m"
    /\ out["5[mu]m"].kind = "file" /\ out["5[micro]m"].kind = "dir"
    /\ outcomes[1].parent = "5[micro]m" /\ outcomes[1].why = "deployed"

(***************************************************************************)
(*            Claims about the daemon and the deployer together            *)
(***************************************************************************)

\* C15: static mode covers the deployment: in every interleaving of the
\* daemon's ticks with a run of the deployment process (the pool of static
\* images not empty), whenever the deployer copies frames into a project's
\* materials directory the wallpaper mode last set by the daemon is the
\* static image.
C15_StaticCoversDeployment ==
    [][(ViewStep /\ Done.why = "deployed" /\ Done.copied > 0)
          => wallpaper.mode = "static"]_vars

====
